---- MODULE Spec2Model ----
(***************************************************************************)
(* Bearer-token acquisition of google-cloud-rs: the TokenProvider trait,   *)
(* its two implementations (MetadataManager, TokenManager), the client     *)
(* construction that picks one of them, and the tokio Mutex through which  *)
(* every storage operation of one client reaches the provider.             *)
(*                                                                         *)
(* Time is counted in seconds (chrono timestamps).                          *)
(***************************************************************************)
EXTENDS Integers, Sequences, FiniteSets, TLC

\* ---------------------------------------------------------------- bounds
\* Number of token() calls started over a behaviour.
MaxCalls == 2
\* Number of times the wall clock is advanced over a behaviour.
MaxTicks == 2

\* Tasks, each with a Client value of its own.
Tasks == {"t1", "t2"}

\* The providers behind the Client values: one Arc<Mutex<Box<dyn TokenProvider>>>
\* per Client::new call. A Client obtained by Clone (the one inside a Bucket
\* or an Object too) holds a clone of the Arc, that is the same provider.
Providers == {1, 2}

\* ------------------------------------------------------------- constants
\* chrono::Duration::minutes(45), in seconds.
hour == 45 * 60

\* Amounts by which the clock may advance in one step.
TickSteps == {1, hour}

\* ------------------------------------------------------------ data model
\* Option<Token>: None, or Some(Token { value: Bearer(access_token), expiry }).
None == [some |-> FALSE]

Some(access_token, expiry) ==
    [some |-> TRUE, value |-> access_token, expiry |-> expiry]

\* impl Display for TokenValue: "Bearer {token}".
TokenValue_fmt(access_token) == "Bearer " \o access_token

\* Result<String, AuthError>.
Ok(s) == [ok |-> TRUE, val |-> s]

Err(e) == [ok |-> FALSE, val |-> e]

\* HTTP response bodies an endpoint may send: not JSON at all, a JSON object
\* without access_token (an error document), or a JSON object with
\* access_token and with or without expires_in. The n-th request sent is
\* answered, when it is answered with a token, with a token of its own.
access_token_of(n) == "tok" \o ToString(n)

ExpiresIn == {-3600, 0, 3600}

NotJson ==
    [json |-> FALSE, has_access_token |-> FALSE,
     has_expires_in |-> FALSE, expires_in |-> 0]

ErrorDocument ==
    [json |-> TRUE, has_access_token |-> FALSE,
     has_expires_in |-> FALSE, expires_in |-> 0]

TokenBodies ==
    [json : {TRUE}, has_access_token : {TRUE},
     has_expires_in : {TRUE}, expires_in : ExpiresIn]
    \cup [json : {TRUE}, has_access_token : {TRUE},
          has_expires_in : {FALSE}, expires_in : {0}]

\* Outcome of self.client.request(req).await and hyper::body::to_bytes: a
\* transport failure (nothing delivered), a 200 response, or a 500 response
\* (with an error document, or with a body that carries a token all the same).
Outcomes ==
    {[delivered |-> FALSE, status |-> 0, body |-> NotJson]}
    \cup [delivered : {TRUE}, status : {200}, body : {NotJson} \cup TokenBodies]
    \cup [delivered : {TRUE}, status : {500},
          body : {ErrorDocument} \cup {b \in TokenBodies : b.expires_in = 3600}]

\* json::from_reader / json::from_slice into AuthResponse: access_token is
\* required, expires_in carries #[serde(default)].
AuthResponse(body, n) ==
    IF body.json /\ body.has_access_token
    THEN [ok |-> TRUE,
          access_token |-> access_token_of(n),
          expires_in |-> IF body.has_expires_in THEN body.expires_in ELSE 0]
    ELSE [ok |-> FALSE, access_token |-> "", expires_in |-> 0]

\* ------------------------------------------------------------ environment
\* std::env::var yields Ok only for a variable that is set and valid Unicode.
EnvValues == {"unset", "set", "not_unicode"}

env_var(v) == v = "set"

\* What File::open and json::from_reader make of the credentials path: the
\* file does not open, does not parse into ApplicationCredentials, or parses
\* (with a private key that signs, or with one jwt::encode rejects).
Files == {"unopenable", "unparseable", "valid_key", "malformed_key"}

\* ------------------------------------------------------------------ state
VARIABLES
    env,            \* GOOGLE_APPLICATION_CREDENTIALS, K_SERVICE, the file, reqwest build
    client,         \* result of Client::new: its token_provider's strategy, or the error
    provider,       \* per task: the Arc<Mutex<..>> its Client value points to
    current_token,  \* per provider: its Option<Token>
    clock,          \* chrono::Utc::now()
    ticks,          \* clock advances so far
    holder,         \* per provider: the task holding its MutexGuard, or "none"
    waitq,          \* per provider: tasks suspended in lock().await, in arrival order
    pc,             \* per task: "idle", "lock", "exchange", "request"
    frame,          \* per task: locals of its token() call
    authorization,  \* per task: the authorization header of its storage request
    calls,          \* token() calls started so far
    exchanges,      \* requests sent to a token or metadata endpoint so far
    last,           \* history: the token() call that completed most recently
    issued,         \* history: what each successful exchange returned and stored
    race            \* history: the callers that queued together on an invalid token

vars == <<env, client, provider, current_token, clock, ticks, holder, waitq, pc, frame,
          authorization, calls, exchanges, last, issued, race>>

NoFrame == [current_time |-> 0, expiry |-> 0, exp |-> 0, iat |-> 0]

NoClient == [state |-> "none", strategy |-> "none", error |-> "none"]

NoOutcome == [delivered |-> FALSE, status |-> 0, body |-> NotJson]

\* No error: the operation goes on past the `?`.
NoError == [variant |-> "none", source |-> ""]

\* The conversion that `?` applies to an AuthError inside an operation that
\* returns Result<_, Error>: the Auth variant holding the auth error.
Error_from(e) == [variant |-> "Auth", source |-> e]

\* A completed token() call: what it read, sent, received, stored and
\* returned. returned is the expiry of the token the successful call before
\* it returned.
Entry(seq, t, kind, sent, ret, f, before, after, now, o, returned, racer) ==
    [seq |-> seq, task |-> t, kind |-> kind, sent |-> sent, ret |-> ret,
     current_time |-> f.current_time, exp |-> f.exp, iat |-> f.iat,
     before |-> before, after |-> after, now |-> now,
     delivered |-> o.delivered, status |-> o.status,
     has_expires_in |-> o.body.has_expires_in, expires_in |-> o.body.expires_in,
     returned |-> returned, racer |-> racer,
     op |-> IF ret.ok THEN NoError ELSE Error_from(ret.val)]

NoEntry ==
    Entry(0, "none", "none", FALSE, [ok |-> FALSE, val |-> ""], NoFrame,
          None, None, 0, NoOutcome, None, FALSE)

NoRace ==
    [pending |-> {}, sent |-> 0, failed |-> 0, succeeded |-> 0, stale |-> 0,
     stored |-> ""]

InitState ==
    /\ env \in [GOOGLE_APPLICATION_CREDENTIALS : EnvValues, K_SERVICE : EnvValues,
                file : Files, reqwest_build : BOOLEAN]
    \* a file is there to be read only when the variable names a path
    /\ env.GOOGLE_APPLICATION_CREDENTIALS # "set" => env.file = "unopenable"
    /\ client = NoClient
    /\ current_token = [p \in Providers |-> None]
    /\ clock = 0
    /\ ticks = 0
    /\ holder = [p \in Providers |-> "none"]
    /\ waitq = [p \in Providers |-> <<>>]
    /\ pc = [t \in Tasks |-> "idle"]
    /\ frame = [t \in Tasks |-> NoFrame]
    /\ authorization = [t \in Tasks |-> ""]
    /\ calls = 0
    /\ exchanges = 0
    /\ last = NoEntry
    /\ issued = {}
    /\ race = NoRace

\* Every task works through a clone of one Client.
Init ==
    /\ InitState
    /\ provider = [t \in Tasks |-> 1]

\* ------------------------------------------------------ Client::new
\* Variant of Client_new that looks for the K_SERVICE marker first.
Client_new_marker_first(e) ==
    IF env_var(e.K_SERVICE)
    THEN IF ~e.reqwest_build
         THEN [state |-> "err", strategy |-> "none", error |-> "Reqwest"]
         ELSE [state |-> "ok", strategy |-> "MetadataManager", error |-> "none"]
    ELSE IF env_var(e.GOOGLE_APPLICATION_CREDENTIALS)
         THEN IF e.file = "unopenable"
              THEN [state |-> "err", strategy |-> "none", error |-> "Io"]
              ELSE IF e.file = "unparseable"
              THEN [state |-> "err", strategy |-> "none", error |-> "Json"]
              ELSE IF ~e.reqwest_build
              THEN [state |-> "err", strategy |-> "none", error |-> "Reqwest"]
              ELSE [state |-> "ok", strategy |-> "TokenManager", error |-> "none"]
         ELSE [state |-> "err", strategy |-> "none", error |-> "Config"]

\* Variant of Client_new that turns to the K_SERVICE marker when the
\* credentials file cannot be read.
Client_new_fallback(e) ==
    IF /\ env_var(e.GOOGLE_APPLICATION_CREDENTIALS)
       /\ e.file \in {"valid_key", "malformed_key"}
    THEN IF ~e.reqwest_build
         THEN [state |-> "err", strategy |-> "none", error |-> "Reqwest"]
         ELSE [state |-> "ok", strategy |-> "TokenManager", error |-> "none"]
    ELSE IF env_var(e.K_SERVICE)
         THEN IF ~e.reqwest_build
              THEN [state |-> "err", strategy |-> "none", error |-> "Reqwest"]
              ELSE [state |-> "ok", strategy |-> "MetadataManager", error |-> "none"]
         ELSE [state |-> "err", strategy |-> "none", error |-> "Config"]

\* Client::new with Client::from_credentials inlined.
Client_new(e) ==
    IF env_var(e.GOOGLE_APPLICATION_CREDENTIALS)
    THEN IF e.file = "unopenable"
         THEN [state |-> "err", strategy |-> "none", error |-> "Io"]
         ELSE IF e.file = "unparseable"
         THEN [state |-> "err", strategy |-> "none", error |-> "Json"]
         ELSE IF ~e.reqwest_build
         THEN [state |-> "err", strategy |-> "none", error |-> "Reqwest"]
         ELSE [state |-> "ok", strategy |-> "TokenManager", error |-> "none"]
    ELSE IF env_var(e.K_SERVICE)
         THEN IF ~e.reqwest_build
              THEN [state |-> "err", strategy |-> "none", error |-> "Reqwest"]
              ELSE [state |-> "ok", strategy |-> "MetadataManager", error |-> "none"]
         ELSE [state |-> "err", strategy |-> "none", error |-> "Config"]

ClientNew ==
    /\ client.state = "none"
    /\ client' = Client_new(env)
    /\ UNCHANGED <<env, provider, current_token, clock, ticks, holder, waitq, pc,
                   frame, authorization, calls, exchanges, last, issued, race>>

\* ------------------------------------------------------------- the clock
\* Time is counted from the construction of the client.
Tick ==
    /\ client.state = "ok"
    /\ ticks < MaxTicks
    /\ \E d \in TickSteps : clock' = clock + d
    /\ ticks' = ticks + 1
    /\ UNCHANGED <<env, client, provider, current_token, holder, waitq, pc, frame,
                   authorization, calls, exchanges, last, issued, race>>

\* Variant of token_provider: one process-wide provider behind every Client.
token_provider_static(t) == 1

\* `self.token_provider` / `self.client.token_provider`: the Arc<Mutex<..>>
\* reached through the Client value that task t works with.
token_provider(t) == provider[t]

\* Two tasks, each with its own Client value: the second one's is either a
\* clone of the first (the same Arc) or built by a second Client::new.
InitClients ==
    /\ InitState
    /\ provider \in {f \in [Tasks -> Providers] : f["t1"] = 1}
    \* on a Cloud Run service, with or without a key file named
    /\ env.reqwest_build
    /\ env.K_SERVICE = "set"
    /\ env.GOOGLE_APPLICATION_CREDENTIALS # "not_unicode"
    /\ env.file \in {"unopenable", "valid_key"}

\* ------------------------------------------- storage operations and the lock
\* Client::bucket, Client::buckets, Client::create_bucket, Bucket::create_object,
\* Bucket::object, Bucket::delete up to `self.token_provider.lock().await`: the
\* task joins the Mutex's queue of waiters. A race starts when every task is
\* then waiting and the cached token is absent or expired.
CallOp(t) ==
    /\ client.state = "ok"
    /\ pc[t] = "idle"
    /\ calls < MaxCalls
    /\ calls' = calls + 1
    /\ pc' = [pc EXCEPT ![t] = "lock"]
    /\ waitq' = [waitq EXCEPT ![token_provider(t)] = Append(@, t)]
    /\ race' = IF /\ \A u \in Tasks \ {t} :
                        token_provider(u) = token_provider(t) /\ pc[u] = "lock"
                  /\ ~( /\ current_token[token_provider(t)].some
                        /\ current_token[token_provider(t)].expiry >= clock )
               THEN [NoRace EXCEPT !.pending = Tasks]
               ELSE race
    /\ UNCHANGED <<env, client, provider, current_token, clock, ticks, holder, frame,
                   authorization, exchanges, last, issued>>

\* self.current_token of the provider behind task t's Client value.
Cache(t) == current_token[token_provider(t)]

\* Variant of Acquire that does not wait for the guard to be dropped.
Acquire_unguarded(t) ==
    /\ pc[t] = "lock"
    /\ waitq[token_provider(t)] # <<>>
    /\ Head(waitq[token_provider(t)]) = t

\* tokio::sync::Mutex::lock resolves for the longest-waiting task once no
\* guard is alive.
Acquire(t) ==
    /\ pc[t] = "lock"
    /\ holder[token_provider(t)] = "none"
    /\ waitq[token_provider(t)] # <<>>
    /\ Head(waitq[token_provider(t)]) = t

\* Variant of Return in which the guard is bound to a variable of the
\* operation and so lives on while the storage request is sent.
Return_guard_kept(t, ret) ==
    /\ holder' = [holder EXCEPT ![token_provider(t)] = IF ret.ok THEN t ELSE "none"]
    /\ pc' = [pc EXCEPT ![t] = IF ret.ok THEN "request" ELSE "idle"]
    /\ authorization' = [authorization EXCEPT ![t] = IF ret.ok THEN ret.val ELSE ""]
    /\ frame' = [frame EXCEPT ![t] = NoFrame]

\* Variant of Return in which the operation ignores a failed token() call
\* and sends its request without a token.
Return_send_anyway(t, ret) ==
    /\ holder' = [holder EXCEPT ![token_provider(t)] = "none"]
    /\ pc' = [pc EXCEPT ![t] = "request"]
    /\ authorization' = [authorization EXCEPT ![t] = IF ret.ok THEN ret.val ELSE ""]
    /\ frame' = [frame EXCEPT ![t] = NoFrame]

\* `let token = ...token().await?;`: the MutexGuard, a temporary of this
\* statement, is dropped at its end; Ok goes on to send the storage request
\* with the token as its authorization header, Err leaves the operation.
Return(t, ret) ==
    /\ holder' = [holder EXCEPT ![token_provider(t)] = "none"]
    /\ pc' = [pc EXCEPT ![t] = IF ret.ok THEN "request" ELSE "idle"]
    /\ authorization' = [authorization EXCEPT ![t] = IF ret.ok THEN ret.val ELSE ""]
    /\ frame' = [frame EXCEPT ![t] = NoFrame]

\* History of a call of task t that sends its request: a racer's request is
\* counted, and counted as stale when a racer before it had refreshed and the
\* token that one stored has expired by this caller's clock read.
RaceSend(t, current_time) ==
    IF t \in race.pending
    THEN [race EXCEPT !.sent = @ + 1,
                      !.stale = IF /\ race.succeeded > 0
                                   /\ current_token[token_provider(t)].some
                                   /\ current_token[token_provider(t)].expiry < current_time
                                THEN @ + 1 ELSE @]
    ELSE race

\* History of a call of task t that completes.
RaceDone(t, kind, sent, ret) ==
    IF t \in race.pending
    THEN [race EXCEPT !.pending = @ \ {t},
                      !.failed = IF kind = "error" /\ sent THEN @ + 1 ELSE @,
                      !.succeeded = IF kind = "exchange" THEN @ + 1 ELSE @,
                      !.stored = IF kind = "exchange" THEN ret.val ELSE @]
    ELSE race

\* History of a completed call.
Complete(t, kind, sent, ret, f, before, after, o) ==
    /\ last' = Entry(last.seq + 1, t, kind, sent, ret, f, before, after, clock, o,
                     IF last.ret.ok THEN last.after ELSE last.returned,
                     t \in race.pending)
    /\ issued' = IF kind = "exchange"
                 THEN issued \cup {[n |-> exchanges, ret |-> ret.val,
                                    expiry |-> after.expiry]}
                 ELSE issued
    /\ race' = RaceDone(t, kind, sent, ret)

\* The storage request's response arrives; the operation is over.
StorageResponse(t) ==
    /\ pc[t] = "request"
    /\ pc' = [pc EXCEPT ![t] = "idle"]
    /\ authorization' = [authorization EXCEPT ![t] = ""]
    /\ UNCHANGED <<env, client, provider, current_token, clock, ticks, holder, waitq, frame,
                   calls, exchanges, last, issued, race>>

\* --------------------------------------------------------- MetadataManager
\* Variant of MetadataManager_valid with a strict comparison.
MetadataManager_valid_strict(token, current_time) ==
    token.some /\ token.expiry > current_time

\* `if token.expiry >= current_time` on `Some(ref token)`.
MetadataManager_valid(token, current_time) ==
    token.some /\ token.expiry >= current_time

\* `expiry: chrono::Utc::now() + chrono::Duration::seconds(ar.expires_in)`.
MetadataManager_expiry(current_time, now, expires_in) == now + expires_in

\* Variant of MetadataManager_on_error that drops the cached token.
MetadataManager_on_error_clear(token) == None

\* self.current_token after a call that left through `?`.
MetadataManager_on_error(token) == token

\* MetadataManager::token up to its first suspension: the clock read, the
\* cache check, and on a miss the GET sent to META_ENDPOINT.
MetadataManager_token(t) ==
    /\ client.strategy = "MetadataManager"
    /\ Acquire(t)
    /\ waitq' = [waitq EXCEPT ![token_provider(t)] = Tail(@)]
    /\ LET f == [NoFrame EXCEPT !.current_time = clock] IN
       IF MetadataManager_valid(Cache(t), f.current_time)
       THEN LET ret == Ok(TokenValue_fmt(Cache(t).value)) IN
            /\ Return(t, ret)
            /\ Complete(t, "hit", FALSE, ret, f, Cache(t), Cache(t), NoOutcome)
            /\ UNCHANGED <<current_token, exchanges>>
       ELSE /\ holder' = [holder EXCEPT ![token_provider(t)] = t]
            /\ pc' = [pc EXCEPT ![t] = "exchange"]
            /\ frame' = [frame EXCEPT ![t] = f]
            /\ exchanges' = exchanges + 1
            /\ race' = RaceSend(t, clock)
            /\ UNCHANGED <<current_token, authorization, last, issued>>
    /\ UNCHANGED <<env, client, provider, clock, ticks, calls>>

\* Variant of MetadataManager_response that answers a failed exchange by
\* sending the request again within the same call.
MetadataManager_response_retry(t) ==
    /\ client.strategy = "MetadataManager"
    /\ pc[t] = "exchange"
    /\ holder[token_provider(t)] = t
    /\ \E o \in Outcomes :
         LET ar == AuthResponse(o.body, exchanges)
             token == Some(ar.access_token,
                           MetadataManager_expiry(frame[t].current_time, clock,
                                                  ar.expires_in))
             failed == ~o.delivered \/ ~ar.ok
             ret == Ok(TokenValue_fmt(token.value))
         IN IF failed
            THEN /\ exchanges' = exchanges + 1
                 /\ UNCHANGED <<current_token, holder, pc, authorization, frame,
                                last, issued, race>>
            ELSE /\ current_token' = [current_token EXCEPT ![token_provider(t)] = token]
                 /\ Return(t, ret)
                 /\ Complete(t, "exchange", TRUE, ret, frame[t], Cache(t), token, o)
                 /\ UNCHANGED exchanges
    /\ UNCHANGED <<env, client, provider, clock, ticks, waitq, calls>>

\* MetadataManager::token from the response on: the body is parsed without a
\* look at the status, the clock is read again, the token is stored.
MetadataManager_response(t) ==
    /\ client.strategy = "MetadataManager"
    /\ pc[t] = "exchange"
    /\ holder[token_provider(t)] = t
    /\ \E o \in Outcomes :
         LET ar == AuthResponse(o.body, exchanges)
             token == Some(ar.access_token,
                           MetadataManager_expiry(frame[t].current_time, clock,
                                                  ar.expires_in))
             failed == ~o.delivered \/ ~ar.ok
             ret == IF ~o.delivered THEN Err("Hyper")
                    ELSE IF ~ar.ok THEN Err("Json")
                    ELSE Ok(TokenValue_fmt(token.value))
             after == IF failed THEN MetadataManager_on_error(Cache(t))
                      ELSE token
         IN /\ current_token' = [current_token EXCEPT ![token_provider(t)] = after]
            /\ Return(t, ret)
            /\ Complete(t, IF failed THEN "error" ELSE "exchange", TRUE, ret,
                        frame[t], Cache(t), after, o)
    /\ UNCHANGED <<env, client, provider, clock, ticks, waitq, calls, exchanges>>

\* ------------------------------------------------------------ TokenManager
\* Variant of TokenManager_valid with a strict comparison.
TokenManager_valid_strict(token, current_time) ==
    token.some /\ token.expiry > current_time

\* `Some(ref token) if token.expiry >= current_time`.
TokenManager_valid(token, current_time) ==
    token.some /\ token.expiry >= current_time

\* Variant of TokenManager_expiry with a window of a full hour.
TokenManager_expiry_60min(current_time) == current_time + 60 * 60

\* `let expiry = current_time + hour;`.
TokenManager_expiry(current_time) == current_time + hour

\* The "exp" and "iat" claims of the assertion's payload.
TokenManager_payload(current_time, expiry) == [exp |-> expiry, iat |-> current_time]

\* Variant of TokenManager_store that counts the lifetime the server reports
\* (0 when absent) from the start of the call.
TokenManager_store_reported(access_token, expiry, expires_in) ==
    Some(access_token, expiry - hour + expires_in)

\* `Token { expiry, value }` built from the response.
TokenManager_store(access_token, expiry, expires_in) == Some(access_token, expiry)

\* self.current_token after a call that left through `?`.
TokenManager_on_error(token) == token

\* jwt::encode with creds.private_key, a field of the credentials loaded once.
jwt_encode_ok == env.file = "valid_key"

\* TokenManager::token up to its first suspension: the clock read, the cache
\* check, and on a miss the assertion signed and POSTed to AUTH_ENDPOINT.
TokenManager_token(t) ==
    /\ client.strategy = "TokenManager"
    /\ Acquire(t)
    /\ waitq' = [waitq EXCEPT ![token_provider(t)] = Tail(@)]
    /\ LET current_time == clock
           expiry == TokenManager_expiry(current_time)
           payload == TokenManager_payload(current_time, expiry)
           f == [current_time |-> current_time, expiry |-> expiry,
                 exp |-> payload.exp, iat |-> payload.iat]
       IN
       IF TokenManager_valid(Cache(t), current_time)
       THEN LET ret == Ok(TokenValue_fmt(Cache(t).value)) IN
            /\ Return(t, ret)
            /\ Complete(t, "hit", FALSE, ret,
                        [NoFrame EXCEPT !.current_time = current_time],
                        Cache(t), Cache(t), NoOutcome)
            /\ UNCHANGED <<current_token, exchanges>>
       ELSE IF ~jwt_encode_ok
       THEN LET ret == Err("Jwt")
                after == TokenManager_on_error(Cache(t)) IN
            /\ current_token' = [current_token EXCEPT ![token_provider(t)] = after]
            /\ Return(t, ret)
            /\ Complete(t, "error", FALSE, ret, f, Cache(t), after, NoOutcome)
            /\ UNCHANGED exchanges
       ELSE /\ holder' = [holder EXCEPT ![token_provider(t)] = t]
            /\ pc' = [pc EXCEPT ![t] = "exchange"]
            /\ frame' = [frame EXCEPT ![t] = f]
            /\ exchanges' = exchanges + 1
            /\ race' = RaceSend(t, clock)
            /\ UNCHANGED <<current_token, authorization, last, issued>>
    /\ UNCHANGED <<env, client, provider, clock, ticks, calls>>

\* TokenManager::token from the response on: the body is parsed without a look
\* at the status, and the token is stored with the expiry computed before the
\* request.
TokenManager_response(t) ==
    /\ client.strategy = "TokenManager"
    /\ pc[t] = "exchange"
    /\ holder[token_provider(t)] = t
    /\ \E o \in Outcomes :
         LET ar == AuthResponse(o.body, exchanges)
             token == TokenManager_store(ar.access_token, frame[t].expiry,
                                         ar.expires_in)
             failed == ~o.delivered \/ ~ar.ok
             ret == IF ~o.delivered THEN Err("Hyper")
                    ELSE IF ~ar.ok THEN Err("Json")
                    ELSE Ok(TokenValue_fmt(token.value))
             after == IF failed THEN TokenManager_on_error(Cache(t))
                      ELSE token
         IN /\ current_token' = [current_token EXCEPT ![token_provider(t)] = after]
            /\ Return(t, ret)
            /\ Complete(t, IF failed THEN "error" ELSE "exchange", TRUE, ret,
                        frame[t], Cache(t), after, o)
    /\ UNCHANGED <<env, client, provider, clock, ticks, waitq, calls, exchanges>>

\* ------------------------------------------------------------ cancellation
\* Variant of Drop in which the guard outlives the dropped future.
Drop_leak(t) ==
    /\ pc[t] = "exchange"
    /\ holder[token_provider(t)] = t
    /\ pc' = [pc EXCEPT ![t] = "idle"]
    /\ frame' = [frame EXCEPT ![t] = NoFrame]
    /\ race' = [race EXCEPT !.pending = @ \ {t}]
    /\ UNCHANGED <<env, client, provider, current_token, clock, ticks, holder, waitq,
                   authorization, calls, exchanges, last, issued>>

\* The operation's future is dropped while token() is suspended in
\* `self.client.request(req).await` or `to_bytes(..).await`: the locals of
\* the call and the MutexGuard are dropped with it, and the statements after
\* the await, the assignment to self.current_token among them, never run.
Drop(t) ==
    /\ pc[t] = "exchange"
    /\ holder[token_provider(t)] = t
    /\ holder' = [holder EXCEPT ![token_provider(t)] = "none"]
    /\ pc' = [pc EXCEPT ![t] = "idle"]
    /\ frame' = [frame EXCEPT ![t] = NoFrame]
    /\ race' = [race EXCEPT !.pending = @ \ {t}]
    /\ UNCHANGED <<env, client, provider, current_token, clock, ticks, waitq,
                   authorization, calls, exchanges, last, issued>>

\* ------------------------------------------------------------ specification
Next ==
    \/ ClientNew
    \/ Tick
    \/ \E t \in Tasks : CallOp(t)
    \/ \E t \in Tasks : MetadataManager_token(t)
    \/ \E t \in Tasks : MetadataManager_response(t)
    \/ \E t \in Tasks : TokenManager_token(t)
    \/ \E t \in Tasks : TokenManager_response(t)
    \/ \E t \in Tasks : StorageResponse(t)

Spec == Init /\ [][Next]_vars

\* ------------------------------------------------------------------ claims
\* Every token() call runs under the provider's lock, so calls complete one
\* after another; `last` is the latest of them and `issued` holds every
\* successful exchange completed so far.

\* C1: once a call has completed a successful exchange, every later call whose
\* clock read is at or before the expiry that exchange stored sends no request
\* and returns the very string that exchange returned.
C1_CachedTokenReused ==
    \A x \in issued :
        ( /\ last.kind # "none"
          /\ ~(last.kind = "exchange" /\ last.ret.val = x.ret)
          /\ last.current_time <= x.expiry )
        => (last.kind = "hit" /\ ~last.sent /\ last.ret = Ok(x.ret))

\* C1 witness: a call served from the cache exactly at the expiry instant,
\* after the clock has moved.
C1_Witness ==
    /\ last.kind = "hit"
    /\ last.current_time > 0
    /\ \E x \in issued : last.current_time = x.expiry /\ last.ret = Ok(x.ret)

\* C2 as stated: the callers that queued together on an absent or expired
\* token send at most one request between them.
C2_AtMostOneExchange == race.sent <= 1

\* C2 amended: at most one request is in flight at a time; such callers send
\* at most one request, plus one for every request of theirs that failed and
\* one for every caller whose clock read was past the expiry stored by the
\* refresh; a caller served from the cache returns the token the refreshing
\* caller stored.
C2_OneExchangePerInvalidToken ==
    /\ Cardinality({t \in Tasks : pc[t] = "exchange"}) <= 1
    /\ race.sent <= 1 + race.failed + race.stale
    /\ (last.racer /\ last.kind = "hit")
         => (race.succeeded > 0 /\ last.ret = Ok(race.stored))

\* C2 witness: both callers of a race are done, one refreshed and the other
\* was served the refreshed token.
C2_Witness ==
    /\ race.pending = {}
    /\ race.sent = 1
    /\ race.succeeded = 1
    /\ last.racer
    /\ last.kind = "hit"
    /\ last.ret = Ok(race.stored)

\* C3 as stated: a call made after the cached token's expiry that exchanges
\* successfully stores an expiry strictly later than the previous one.
C3_RefreshStrictlyLater ==
    ( /\ last.kind = "exchange"
      /\ last.before.some
      /\ last.before.expiry < last.current_time )
    => (last.sent /\ last.after.expiry > last.before.expiry)

\* C4: a token() call that fails leaves the cached token as it was before the
\* call.
C4_FailureKeepsCache ==
    (last.kind = "error") => (~last.ret.ok /\ Cache(last.task) = last.before)

\* C4 witness: a failed exchange (transport failure or unparseable body) made
\* while an expired token was cached.
C4_Witness ==
    /\ last.kind = "error"
    /\ last.sent
    /\ last.before.some
    /\ Cache(last.task) = last.before

\* C5 as stated: every successful token() call returns a token whose stored
\* expiry is at or after the time that call read.
C5_ReturnedTokenValid ==
    last.ret.ok => (last.after.expiry >= last.current_time)

\* C6 as stated: the expiry of the token returned by a successful call is
\* never earlier than that of the token returned by the successful call
\* before it.
C6_ExpiryMonotone ==
    (last.ret.ok /\ last.returned.some)
    => (last.after.expiry >= last.returned.expiry)

\* C7: in TokenManager every successful exchange stores the time read at the
\* start of the call plus 45 minutes, whatever expires_in the response had;
\* that instant is the assertion's exp and the time read is its iat.
C7_AssertionExpiry ==
    (client.strategy = "TokenManager" /\ last.kind = "exchange")
    => ( /\ last.after.expiry = last.current_time + 45 * 60
         /\ Cache(last.task) = last.after
         /\ last.exp = last.after.expiry
         /\ last.iat = last.current_time )

\* C7 witness: a successful assertion exchange during which the clock moved
\* and whose response reported a lifetime longer than 45 minutes.
C7_Witness ==
    /\ client.strategy = "TokenManager"
    /\ last.kind = "exchange"
    /\ last.now > last.current_time
    /\ last.has_expires_in
    /\ last.expires_in > 45 * 60

\* C8 as stated: in MetadataManager every successful exchange stores the time
\* read at the start of the call plus the reported expires_in.
C8_MetadataExpiry ==
    (client.strategy = "MetadataManager" /\ last.kind = "exchange")
    => (last.after.expiry = last.current_time + last.expires_in)

\* C9 as stated: a response with a status outside 2xx makes token() fail and
\* leaves the cache as it was.
C9_Non2xxFails ==
    (last.sent /\ last.delivered /\ ~(last.status \in 200..299))
    => (~last.ret.ok /\ Cache(last.task) = last.before)

\* C10 as stated: a present GOOGLE_APPLICATION_CREDENTIALS always yields the
\* TokenManager, else a present K_SERVICE always yields the MetadataManager,
\* else a configuration error.
C10_StrategyByPresence ==
    (client.state # "none")
    => IF env.GOOGLE_APPLICATION_CREDENTIALS # "unset"
       THEN client.state = "ok" /\ client.strategy = "TokenManager"
       ELSE IF env.K_SERVICE # "unset"
       THEN client.state = "ok" /\ client.strategy = "MetadataManager"
       ELSE client.state = "err" /\ client.error = "Config"

\* C10 amended: a variable counts as present when it is set to valid Unicode.
\* With GOOGLE_APPLICATION_CREDENTIALS present, the TokenManager is built when
\* the file opens and parses and the HTTP client builds, and construction
\* fails otherwise, whatever K_SERVICE is; else with K_SERVICE present the
\* MetadataManager is built when the HTTP client builds, and construction
\* fails otherwise; else construction fails with a configuration error. The
\* outcome stays what construction made it.
C10_StrategyByPrecedence ==
    (client.state # "none")
    => IF env.GOOGLE_APPLICATION_CREDENTIALS = "set"
       THEN IF env.file \in {"valid_key", "malformed_key"} /\ env.reqwest_build
            THEN client.state = "ok" /\ client.strategy = "TokenManager"
            ELSE /\ client.state = "err"
                 /\ client.strategy = "none"
                 /\ client.error \in {"Io", "Json", "Reqwest"}
       ELSE IF env.K_SERVICE = "set"
       THEN IF env.reqwest_build
            THEN client.state = "ok" /\ client.strategy = "MetadataManager"
            ELSE /\ client.state = "err"
                 /\ client.strategy = "none"
                 /\ client.error = "Reqwest"
       ELSE /\ client.state = "err"
            /\ client.strategy = "none"
            /\ client.error = "Config"

\* C10 witness: both variables present, the TokenManager chosen, and still in
\* place after token() calls.
C10_Witness ==
    /\ env.GOOGLE_APPLICATION_CREDENTIALS = "set"
    /\ env.K_SERVICE = "set"
    /\ client.strategy = "TokenManager"
    /\ last.kind = "exchange"

\* C11: a token() call holds its provider's lock from its clock read to its
\* return, the network round trip included: a task whose exchange is in
\* flight is the holder of the lock, so at most one task per provider is
\* inside token(), and no call completes while another task holds the lock.
C11_MutualExclusion ==
    /\ [](\A t \in Tasks : pc[t] = "exchange" => holder[provider[t]] = t)
    /\ [][(last'.seq # last.seq)
          => holder[provider[last'.task]] \in {"none", last'.task}]_vars

\* C11 witness: one task's exchange is in flight, time has passed since it
\* read the clock, and the other task is still waiting for the lock.
C11_Witness ==
    \E t, u \in Tasks :
        /\ pc[t] = "exchange"
        /\ holder[provider[t]] = t
        /\ clock > frame[t].current_time
        /\ pc[u] = "lock"
        /\ waitq[provider[u]] = <<u>>

\* C12: no task holds the provider lock while its storage request is in
\* flight.
C12_LockReleasedBeforeRequest ==
    \A t \in Tasks : pc[t] = "request" => holder[provider[t]] # t

\* C12 witness: one task's storage request is in flight while another task
\* is inside token() with the lock.
C12_Witness ==
    \E t, u \in Tasks :
        /\ pc[t] = "request"
        /\ pc[u] = "exchange"
        /\ holder[provider[u]] = u
        /\ provider[u] = provider[t]

SpecClients == InitClients /\ [][Next]_vars

\* C13 as stated: whatever Client values two tasks work with, clones
\* included, neither ever waits for a lock that the other holds.
C13_ClientsNeverShare ==
    \A t, u \in Tasks :
        (t # u /\ pc[t] = "lock") => holder[provider[t]] # u

\* C13: two Client values built by separate constructor calls have separate
\* providers: a task never waits on a lock held through the other client, and
\* a step of a token() call made through one leaves the other's cached token,
\* lock and wait queue as they were.  (A clone shares all three.)
C13_SeparateClientsIndependent ==
    /\ [](\A t, u \in Tasks :
            (provider[t] # provider[u] /\ pc[t] = "lock")
                => holder[provider[t]] # u)
    /\ [][\A t \in Tasks :
            (pc'[t] # pc[t] \/ frame'[t] # frame[t])
                => \A p \in Providers \ {provider[t]} :
                      /\ current_token'[p] = current_token[p]
                      /\ holder'[p] = holder[p]
                      /\ waitq'[p] = waitq[p]]_vars

\* C13 witness: the two tasks work with separately built clients; the first
\* has cached a token that is still valid and is sending its storage request,
\* while the second, whose own cache is empty, has an exchange in flight under
\* its own lock.
C13_Witness ==
    /\ provider["t1"] # provider["t2"]
    /\ pc["t1"] = "request"
    /\ Cache("t1").some /\ Cache("t1").expiry >= clock
    /\ pc["t2"] = "exchange" /\ holder[provider["t2"]] = "t2"
    /\ ~Cache("t2").some

\* C14: when the token() call of an operation fails, the operation ends there
\* with the auth error inside its own error type and has sent no storage
\* request; a storage request is sent only in the step in which the one
\* token() call of that operation returns Ok, with that call's string as its
\* authorization header.
C14_FailedTokenNoRequest ==
    /\ [][\A t \in Tasks :
            (last'.seq # last.seq /\ last'.task = t /\ ~last'.ret.ok)
                => /\ pc'[t] = "idle"
                   /\ authorization'[t] = ""
                   /\ last'.op = Error_from(last'.ret.val)
                   /\ last'.op.variant = "Auth"]_vars
    /\ [][\A t \in Tasks :
            (pc'[t] = "request" /\ pc[t] # "request")
                => /\ last'.seq = last.seq + 1
                   /\ last'.task = t
                   /\ last'.ret.ok
                   /\ authorization'[t] = last'.ret.val
                   /\ calls' = calls]_vars
    /\ [](last.seq <= calls)

\* C14 witness: a token() call that sent its exchange request has failed and
\* its operation is over, while the other task's storage request is in flight.
C14_Witness ==
    /\ last.seq > 0
    /\ ~last.ret.ok
    /\ last.sent
    /\ pc[last.task] = "idle"
    /\ \E u \in Tasks : pc[u] = "request"

\* The successful exchange with the highest number so far.
LatestIssued == CHOOSE x \in issued : \A y \in issued : y.n <= x.n

\* C15 as stated: a successful call returns "Bearer " and the access_token of
\* the latest successful exchange; and in MetadataManager, after a first call
\* at T0 answered with tok1 and expires_in 3600, a second call later than
\* T0 + 3600 that succeeds returns "Bearer tok2", with 2 exchanges in all.
C15_ReturnsLatestToken ==
    /\ [](last.ret.ok
            => /\ issued # {}
               /\ last.ret.val = "Bearer " \o access_token_of(LatestIssued.n))
    /\ []( ( /\ client.strategy = "MetadataManager"
             /\ last.seq = 1
             /\ last.kind = "exchange" )
           => last.ret.val = "Bearer tok1" )
    /\ [][( /\ client.strategy = "MetadataManager"
            /\ last.seq = 1
            /\ last.kind = "exchange"
            /\ last.has_expires_in
            /\ last.expires_in = 3600
            /\ last'.seq = 2
            /\ last'.ret.ok
            /\ last'.current_time > last.current_time + 3600 )
          => /\ last'.ret.val = "Bearer tok2"
             /\ exchanges' = 2]_vars

\* C16 as stated: in TokenManager the call that follows a successful exchange
\* whose response had no expires_in performs a new exchange.
C16_AbsentExpiresInForcesRefresh ==
    [][( /\ client.strategy = "TokenManager"
         /\ last.kind = "exchange"
         /\ ~last.has_expires_in
         /\ last'.seq = last.seq + 1 )
        => last'.sent]_vars

\* C16: in TokenManager a response without expires_in is stored like any
\* other, with the expiry 45 minutes after the call's clock read; a following
\* call that reads the clock no later than that returns the cached token
\* without an exchange, and one that reads it later sends a new request.
C16_AbsentExpiresInUnused ==
    /\ []( ( /\ client.strategy = "TokenManager"
             /\ last.kind = "exchange"
             /\ ~last.has_expires_in )
           => last.after = Some(last.after.value, last.current_time + 45 * 60) )
    /\ [][( /\ client.strategy = "TokenManager"
            /\ last.kind = "exchange"
            /\ ~last.has_expires_in
            /\ last'.seq = last.seq + 1 )
          => IF last'.current_time <= last.current_time + 45 * 60
             THEN /\ last'.kind = "hit"
                  /\ last'.ret = last.ret
                  /\ exchanges' = exchanges
             ELSE last'.sent]_vars

\* C16 witness: an exchange whose response had no expires_in has stored its
\* token; time has passed since its clock read, within the 45 minutes; and
\* the other task is waiting for the lock to make the next call.
C16_Witness ==
    /\ client.strategy = "TokenManager"
    /\ last.kind = "exchange"
    /\ ~last.has_expires_in
    /\ clock > last.current_time
    /\ clock <= last.after.expiry
    /\ \E u \in Tasks : pc[u] = "lock"

\* C17: a token() call sends at most one exchange request, namely when it
\* finds no valid token, and the end of that exchange, failed or not, is the
\* end of the call; a failed exchange returns an error; and no call returns
\* a cached token that is invalid at its clock read, so after a failure the
\* next call that finds no valid token sends a request of its own.
C17_NoRetry ==
    /\ [][exchanges' # exchanges
            => /\ exchanges' = exchanges + 1
               /\ \E t \in Tasks : pc[t] = "lock" /\ pc'[t] = "exchange"]_vars
    /\ [][\A t \in Tasks :
            (pc[t] = "exchange" /\ pc'[t] # "exchange")
                => /\ last'.seq = last.seq + 1
                   /\ last'.task = t
                   /\ last'.sent
                   /\ exchanges' = exchanges]_vars
    /\ [](last.kind = "error" => ~last.ret.ok)
    /\ [](last.kind = "hit"
            => /\ ~last.sent
               /\ last.before.some
               /\ last.before.expiry >= last.current_time)
    /\ [][( /\ last.kind = "error"
            /\ last.sent
            /\ last'.seq = last.seq + 1
            /\ ~(last.after.some /\ last.after.expiry >= last'.current_time) )
          => last'.sent]_vars

\* C17 witness: two calls in a row have each sent one request and failed, the
\* cache being empty throughout.
C17_Witness ==
    /\ last.seq = 2
    /\ last.kind = "error"
    /\ last.sent
    /\ ~last.before.some
    /\ ~last.after.some
    /\ exchanges = 2

\* C19 as stated: with GOOGLE_APPLICATION_CREDENTIALS set, whatever its value,
\* and no file that opens and parses, Client::new fails and no
\* MetadataManager is built.
C19_SetNeverFallsBack ==
    ( /\ client.state # "none"
      /\ env.GOOGLE_APPLICATION_CREDENTIALS # "unset"
      /\ env.file \in {"unopenable", "unparseable"} )
    => (client.state = "err" /\ client.strategy # "MetadataManager")

\* C19: with GOOGLE_APPLICATION_CREDENTIALS set to valid Unicode and a file
\* that does not open or does not parse, Client::new fails with the I/O or
\* JSON error and produces no client, whatever K_SERVICE is: no strategy is
\* built and no token() call is ever made.
C19_UnreadableFileFails ==
    ( /\ client.state # "none"
      /\ env.GOOGLE_APPLICATION_CREDENTIALS = "set"
      /\ env.file \in {"unopenable", "unparseable"} )
    => /\ client.state = "err"
       /\ client.strategy = "none"
       /\ client.error = (IF env.file = "unopenable" THEN "Io" ELSE "Json")
       /\ calls = 0
       /\ exchanges = 0

\* C19 witness: the path is set, the file does not parse, K_SERVICE is set
\* too, and Client::new has failed.
C19_Witness ==
    /\ env.GOOGLE_APPLICATION_CREDENTIALS = "set"
    /\ env.file = "unparseable"
    /\ env.K_SERVICE = "set"
    /\ env.reqwest_build
    /\ client.state = "err"

\* The program with callers that may abandon an operation during its exchange.
NextDrop ==
    \/ Next
    \/ \E t \in Tasks : Drop(t)

SpecDrop == Init /\ [][NextDrop]_vars

\* C20: a step that takes a task out of an in-flight exchange without the
\* call completing leaves that provider's lock free and every cached token as
\* it was; a lock is held only by a task whose exchange is in flight; and a
\* cached token is always the whole token of one successful exchange.
C20_DropReleasesLock ==
    /\ [][\A t \in Tasks :
            (pc[t] = "exchange" /\ pc'[t] # "exchange" /\ last' = last)
                => /\ holder'[provider[t]] = "none"
                   /\ current_token' = current_token
                   /\ issued' = issued
                   /\ pc'[t] = "idle"
                   /\ authorization'[t] = ""]_vars
    /\ [](\A p \in Providers :
            holder[p] # "none"
                => pc[holder[p]] = "exchange" /\ provider[holder[p]] = p)
    /\ [](\A p \in Providers :
            current_token[p].some
                => \E x \in issued :
                      /\ x.ret = "Bearer " \o current_token[p].value
                      /\ x.expiry = current_token[p].expiry)

\* C20 witness: two requests have been sent and no call has completed, so the
\* first call was abandoned during its exchange; the next caller has taken
\* the lock, found the cache as it was, and has its own exchange in flight.
C20_Witness ==
    /\ exchanges = 2
    /\ last.seq = 0
    /\ \E t \in Tasks :
          /\ pc[t] = "exchange"
          /\ holder[provider[t]] = t
          /\ ~Cache(t).some

\* A step of task t inside token(): its lock().await resolving, or its
\* exchange completing with success or failure.
TokenStep(t) ==
    \/ MetadataManager_token(t)
    \/ MetadataManager_response(t)
    \/ TokenManager_token(t)
    \/ TokenManager_response(t)

\* Fair scheduling: a task that can take a step inside token() is resumed.
Fairness == \A t \in Tasks : WF_vars(TokenStep(t))

\* The two environments in which Client::new builds a provider that can
\* complete an exchange: a readable key file, or the K_SERVICE marker alone.
InitFair ==
    /\ Init
    /\ env.reqwest_build
    /\ env.K_SERVICE = "set"
    /\ env.GOOGLE_APPLICATION_CREDENTIALS # "not_unicode"
    /\ env.file = (IF env.GOOGLE_APPLICATION_CREDENTIALS = "set"
                   THEN "valid_key" ELSE "unopenable")

FairSpec == InitFair /\ [][Next]_vars /\ Fairness

\* C18: under fair scheduling with every exchange completing, every task
\* inside token(), waiting for the lock or with its exchange in flight,
\* eventually returns from it.
C18_EveryCallReturns ==
    \A t \in Tasks :
        (pc[t] \in {"lock", "exchange"}) ~> (pc[t] \in {"idle", "request"})

\* C18 witness: two callers queued together on an invalid token; the first
\* one's exchange failed, the second one's succeeded, and both have returned.
C18_Witness ==
    /\ last.seq = 2
    /\ last.racer
    /\ race.pending = {}
    /\ race.failed = 1
    /\ race.succeeded = 1
    /\ \A t \in Tasks : pc[t] \in {"idle", "request"}

====
